---- MODULE Spec2Model ----
(***************************************************************************)
(* Model of the navigation session kept by the useNavigation hook          *)
(* (src/src/hooks/useNavigation.ts) together with the polyline decoder and *)
(* the distance function it calls (src/src/views/View.tsx).  Spec is the    *)
(* hook called by any component, SpecView the hook driven by the buttons   *)
(* of the MapView component (GoogleMapsNavigationInstruction.tsx), and     *)
(* SpecCodec one run of the polyline decoder on an encoded string.  The    *)
(* specifications SpecLive and SpecCodecLive add the fairness under which  *)
(* requests are answered, utterances end and a decoder call runs on.       *)
(*                                                                         *)
(* The JavaScript runtime runs one callback at a time, so every action is  *)
(* one callback run to completion: a call of startNavigation or            *)
(* calculateRoute up to its first await of the network, the continuation   *)
(* after the route response, one position fix, stopNavigation, the end of  *)
(* an utterance.  State updaters passed to setNavigationState are applied  *)
(* in the order they were queued, so each is applied to the state left by  *)
(* the previous one.                                                       *)
(*                                                                         *)
(* Units.  Coordinates are fixed-point integers (the numerators that       *)
(* decodePolyline divides by 10^precision).  All positions of the model    *)
(* lie on the meridian of longitude 0, where the Haversine formula of      *)
(* calculateDistance reduces to R * |dphi|; the latitude unit is chosen so *)
(* that one unit is one metre of arc.                                      *)
(***************************************************************************)
EXTENDS Integers, Sequences, FiniteSets, TLC

\* ------------------------------------------------------------------ bounds
\* Route requests (startNavigation or calculateRoute calls) issued in a run.
MaxRequests == 2

\* Points in a sequence given to the polyline encoder.
MaxPoints == 2

\* Characters cut from the end of an encoded polyline.
MaxCut == 2

\* The longest string of arbitrary characters handed to the decoder.
MaxRaw == 2

\* ------------------------------------------------------- JavaScript values
\* null for the route, the error message and the watch id.
NullRoute == [null |-> TRUE]
NullError == "null"
NullWatchId == -1

\* watchPosition returns an unsigned long greater than zero.
FirstWatchId == 1

\* undefined, the value of a function that returns nothing.
Undefined == [undefined |-> TRUE]

\* NaN, the value of charCodeAt past the end of the string.
NaN == -1000000

\* JavaScript arrays are indexed from 0.
Has(arr, i) == i >= 0 /\ i < Len(arr)

At(arr, i) == arr[i + 1]

Abs(x) == IF x < 0 THEN -x ELSE x

\* ------------------------------------------------- 32-bit integer operators
\* Values are kept in [-2^31, 2^31), the range of the language's int32.
Two30 == 1073741824

\* 2 * x wrapped to 32 bits (v stands for the value of x, taken once).
Double32(x) ==
  CHOOSE r \in {IF v >= Two30 THEN 2 * ((v - Two30) - Two30)
                ELSE IF v < -Two30 THEN 2 * ((v + Two30) + Two30)
                ELSE 2 * v : v \in {x}} : TRUE

\* a >> 1 (sign-propagating)
Shr1(a) == a \div 2

\* a | b, bit by bit from the low end; 0 and -1 are the all-zeros and all-ones
\* words.
RECURSIVE BitOr(_, _)
BitOr(a, b) ==
  IF a = 0 THEN b
  ELSE IF b = 0 THEN a
  ELSE IF a = -1 \/ b = -1 THEN -1
  ELSE (IF (a % 2) + (b % 2) > 0 THEN 1 ELSE 0) + 2 * BitOr(Shr1(a), Shr1(b))

\* a & 0x1f ; NaN converts to 0
And1f(a) == IF a = NaN THEN 0 ELSE a % 32

\* a << s ; the shift count is taken modulo 32
RECURSIVE ShlBy(_, _)
ShlBy(a, n) == IF n = 0 THEN a ELSE ShlBy(Double32(a), n - 1)

Shl(a, s) == ShlBy(a, s % 32)

\* ~a
BitNot(a) == -a - 1

\* ---------------------------------------------------------- decodePolyline
\* polyline.charCodeAt(i) - 63
ByteAt(polyline, i) == IF Has(polyline, i) THEN At(polyline, i) - 63 ELSE NaN

\* One do-while loop of decodePolyline: reads 5-bit chunks until a byte with
\* the continuation bit clear (byte >= 0x20 is false, also for NaN).
RECURSIVE ReadChunks(_, _, _, _)
ReadChunks(polyline, index, shift, result) ==
  LET byte == ByteAt(polyline, index)
      r    == BitOr(result, Shl(And1f(byte), shift))
  IN IF byte # NaN /\ byte >= 32
       THEN ReadChunks(polyline, index + 1, shift + 5, r)
       ELSE [result |-> r, index |-> index + 1]

\* (result & 1) !== 0 ? ~(result >> 1) : result >> 1
ZigZag(result) == IF result % 2 # 0 THEN BitNot(Shr1(result)) ELSE Shr1(result)

\* A variant of DecodeLoop that pushes [lat, lng].
RECURSIVE DecodeLoop_LatLng(_, _, _, _, _)
DecodeLoop_LatLng(polyline, index, lat, lng, coordinates) ==
  IF ~(index < Len(polyline)) THEN coordinates
  ELSE LET a    == ReadChunks(polyline, index, 0, 0)
           lat2 == lat + ZigZag(a.result)
           b    == ReadChunks(polyline, a.index, 0, 0)
           lng2 == lng + ZigZag(b.result)
       IN DecodeLoop_LatLng(polyline, b.index, lat2, lng2,
                            Append(coordinates, <<lat2, lng2>>))

\* The outer while loop: a latitude delta, then a longitude delta, then the
\* point [lng, lat] is pushed.
RECURSIVE DecodeLoop(_, _, _, _, _)
DecodeLoop(polyline, index, lat, lng, coordinates) ==
  IF ~(index < Len(polyline)) THEN coordinates
  ELSE LET a    == ReadChunks(polyline, index, 0, 0)
           lat2 == lat + ZigZag(a.result)
           b    == ReadChunks(polyline, a.index, 0, 0)
           lng2 == lng + ZigZag(b.result)
       IN DecodeLoop(polyline, b.index, lat2, lng2, Append(coordinates, <<lng2, lat2>>))

\* The value of index when the outer loop ends: the number of character
\* positions charCodeAt was called for.
RECURSIVE DecodeEnd(_, _)
DecodeEnd(polyline, index) ==
  IF ~(index < Len(polyline)) THEN index
  ELSE DecodeEnd(polyline,
         ReadChunks(polyline, ReadChunks(polyline, index, 0, 0).index, 0, 0).index)

\* A variant of decodePolyline whose loop tests its condition after the body.
decodePolyline_DoWhile(polyline, precision) ==
  LET a == ReadChunks(polyline, 0, 0, 0)
      b == ReadChunks(polyline, a.index, 0, 0)
  IN DecodeLoop(polyline, b.index, ZigZag(a.result), ZigZag(b.result),
                << <<ZigZag(b.result), ZigZag(a.result)>> >>)

\* The points are kept as the fixed-point integers lat and lng; precision only
\* fixes the divisor 10^precision that turns them into degrees.
decodePolyline(polyline, precision) ==
  IF Len(polyline) = 0 THEN <<>> ELSE DecodeLoop(polyline, 0, 0, 0, <<>>)

\* ------------------------------------------------------- calculateDistance
\* Haversine distance in metres, on the meridian of the model (see Units).
calculateDistance(lat1, lon1, lat2, lon2) == Abs(lat2 - lat1)

\* ------------------------------------------------------------ route data
\* Instruction texts are sequences of tokens: a markup tag (one match of
\* /<[^>]+>/), a run of one whitespace character, or a word.
Tags == {"<b>", "</b>"}

Spaces == {" "}

\* Polyline of 10 points at latitudes 0, 10, .., 90 (delta 10 encodes as "S",
\* delta 0 as "?").
ShapeA == <<63, 63, 83, 63, 83, 63, 83, 63, 83, 63, 83, 63, 83, 63, 83, 63, 83, 63, 83, 63>>

\* Polyline of 3 points at latitudes 100, 120, 140 (delta 100 encodes as
\* "gE", delta 20 as "g@").
ShapeB == <<103, 69, 63, 103, 64, 63, 103, 64, 63>>

\* A RouteResponse with one leg and three maneuvers ending at shape indices
\* 0, 5 and 9.
RouteA ==
  [trip |-> [status |-> 0, status_message |-> "Found route between points",
             legs |-> << [shape |-> ShapeA,
                          maneuvers |-> <<
                            [instruction |-> <<"Walk", " ", "north">>,
                             begin_shape_index |-> 0, end_shape_index |-> 0],
                            [instruction |-> <<"Turn", " ", "<b>", "left", "</b>">>,
                             begin_shape_index |-> 0, end_shape_index |-> 5],
                            [instruction |-> <<"Arrive">>,
                             begin_shape_index |-> 5, end_shape_index |-> 9] >>] >>]]

\* A RouteResponse with two legs.  The first has two maneuvers ending at shape
\* indices 1 and 3; its shape has 3 points, so the second end index names no
\* point.  The second leg has one maneuver.
RouteB ==
  [trip |-> [status |-> 0, status_message |-> "Found route between points",
             legs |-> << [shape |-> ShapeB,
                          maneuvers |-> <<
                            [instruction |-> <<"Head", " ", " ", "east">>,
                             begin_shape_index |-> 0, end_shape_index |-> 1],
                            [instruction |-> <<"<b>", "Arrive", "</b>">>,
                             begin_shape_index |-> 1, end_shape_index |-> 3] >>],
                         [shape |-> ShapeB,
                          maneuvers |-> <<
                            [instruction |-> <<"Continue">>,
                             begin_shape_index |-> 0, end_shape_index |-> 2] >>] >>]]

\* A RouteResponse with status 0 whose single leg has no maneuvers and no
\* shape.
RouteEmpty ==
  [trip |-> [status |-> 0, status_message |-> "Found route between points",
             legs |-> << [shape |-> <<>>, maneuvers |-> <<>>] >>]]

\* What the routing provider may answer to a request: the fetch rejects, the
\* HTTP status is not OK, the trip status is not 0, or a route.
Responses ==
  { [kind |-> "reject", message |-> "Failed to fetch"],
    [kind |-> "http", ok |-> FALSE, status |-> 500],
    [kind |-> "http", ok |-> TRUE,
     data |-> [trip |-> [status |-> 442, status_message |-> "No path could be found for input",
                         legs |-> <<>>]]],
    [kind |-> "http", ok |-> TRUE,
     data |-> [trip |-> [status |-> 171, status_message |-> "", legs |-> <<>>]]],
    [kind |-> "http", ok |-> TRUE, data |-> RouteA],
    [kind |-> "http", ok |-> TRUE, data |-> RouteB] }

\* A RouteResponse whose first maneuver ends at shape index 7 of a shape of 3
\* points (ShapeB): an end_shape_index the shape does not have.
RouteStray ==
  [trip |-> [status |-> 0, status_message |-> "Found route between points",
             legs |-> << [shape |-> ShapeB,
                          maneuvers |-> <<
                            [instruction |-> <<"Head", " ", "south">>,
                             begin_shape_index |-> 0, end_shape_index |-> 7],
                            [instruction |-> <<"Arrive">>,
                             begin_shape_index |-> 1, end_shape_index |-> 2] >>] >>]]

\* The answers of the provider together with the route without maneuvers and
\* the route with the stray end_shape_index.
ViewResponses ==
  Responses \cup {[kind |-> "http", ok |-> TRUE, data |-> RouteEmpty],
                  [kind |-> "http", ok |-> TRUE, data |-> RouteStray]}

\* No response: the history entry of an operation that is not a response.
NoResponse == [kind |-> "none"]

\* Latitudes at which the device reports fixes (longitude 0).
FixLats == {0, 8, 45, 90, 118}

\* ----------------------------------------------------------------- state
VARIABLES
  navigationState,  \* the NavigationState record of useState
  watchIdRef,       \* watchIdRef.current
  speakingRef,      \* speakingRef.current
  requests,         \* route requests in flight: [id, kind]
  issued,           \* number of route requests issued so far
  watchers,         \* live watchPosition watchers: [id, route, decodedLegShapes]
  nextWatchId,      \* the id the platform hands to the next watcher
  utterances,       \* queue of speechSynthesis: texts spoken and not yet ended
  env,              \* the platform and the options: [geolocation, speechSynthesis,
                    \* voiceEnabled, recalculateOnDeviation]
  spoken,           \* history: maneuver indices handed to speakInstruction by
                    \* the fix handler since the cursor was last reset
  stopped,          \* history: stopNavigation returned, no startNavigation called since
  last              \* history: the last operation, its request or watcher id, the
                    \* latitude of its fix, the cursor it started from, and for a
                    \* response the kind of its request, the response and the
                    \* value the call resolved to

\* The state of the MapView component that drives the hook.
VARIABLES
  currentLocation,             \* useState: the acquired location, or null
  isLocating,                  \* useState: getCurrentPosition is pending
  showNavigationInstructions   \* useState: the instruction panel is shown

\* One run of the polyline codec.
VARIABLES
  points,           \* the points given to the encoder, <<lng, lat>> fixed-point
  codecPolyline,    \* the string handed to decodePolyline, as character codes
  codecCoordinates, \* what decodePolyline returned
  codecIndex,       \* the value of index when decodePolyline returned
  codecPc,          \* "idle", "points", "encoded" or "decoded"
  decoder           \* the locals of a call of decodePolyline followed step by
                    \* step: [pc, index, lat, lng, shift, result, coordinates, start]

hookVars == <<navigationState, watchIdRef, speakingRef, requests, issued, watchers,
              nextWatchId, utterances, env, spoken, stopped, last>>

viewVars == <<currentLocation, isLocating, showNavigationInstructions>>

codecVars == <<points, codecPolyline, codecCoordinates, codecIndex, codecPc, decoder>>

vars == <<hookVars, viewVars, codecVars>>

\* The platforms the hook runs on: everything there and voice enabled, or one
\* of geolocation, speech synthesis and the voiceEnabled option missing.
\* The caller passes the options voiceEnabled and recalculateOnDeviation.
FullPlatform == [geolocation |-> TRUE, speechSynthesis |-> TRUE, voiceEnabled |-> TRUE,
                 recalculateOnDeviation |-> TRUE]

Platforms ==
  { FullPlatform,
    [FullPlatform EXCEPT !.geolocation = FALSE],
    [FullPlatform EXCEPT !.speechSynthesis = FALSE],
    [FullPlatform EXCEPT !.voiceEnabled = FALSE] }

\* The initial NavigationState, also the state stopNavigation sets.
EmptyState ==
  [isNavigating |-> FALSE, currentRoute |-> NullRoute, currentManeuverIndex |-> 0,
   currentLegIndex |-> 0, distanceToNextManeuver |-> 0, isLoading |-> FALSE,
   error |-> NullError]

\* null for the location.
NullLocation == [null |-> TRUE]

\* The MapView component after its first render.
ViewInit ==
  /\ currentLocation = NullLocation
  /\ isLocating = FALSE
  /\ showNavigationInstructions = FALSE

\* The locals of decodePolyline at the call: index, lat and lng are 0 and
\* coordinates is empty; start is the index at which the current iteration of
\* the outer loop began.
DecoderIdle ==
  [pc |-> "idle", index |-> 0, lat |-> 0, lng |-> 0, shift |-> 0, result |-> 0,
   coordinates |-> <<>>, start |-> 0]

\* No codec run is observed.
CodecIdle ==
  /\ points = <<>>
  /\ codecPolyline = <<>>
  /\ codecCoordinates = <<>>
  /\ codecIndex = 0
  /\ codecPc = "idle"
  /\ decoder = DecoderIdle

\* The hook after its first render, whatever the ids the platform hands out.
HookStart ==
  /\ navigationState = EmptyState
  /\ watchIdRef = NullWatchId
  /\ speakingRef = FALSE
  /\ requests = {}
  /\ issued = 0
  /\ watchers = {}
  /\ utterances = <<>>
  /\ env \in Platforms
  /\ spoken = <<>>
  /\ stopped = FALSE
  /\ last = [op |-> "init", id |-> 0, lat |-> 0, idx |-> 0, kind |-> "",
             resp |-> NoResponse, ret |-> Undefined]

\* The hook after its first render on a platform whose watch ids start at 1.
HookInit == HookStart /\ nextWatchId = FirstWatchId

Init == HookInit /\ ViewInit /\ CodecIdle

\* The ids a platform may hand to its first watcher: watchPosition returns an
\* integer, and 0 is one.
WatchIdStarts == {0, FirstWatchId}

\* MapView after its first render, on a platform of either kind.
InitView == HookStart /\ nextWatchId \in WatchIdStarts /\ ViewInit /\ CodecIdle

\* ------------------------------------------------------------ calculateRoute
\* A variant of SetLoading that also empties the session when a request starts.
SetLoading_Reset(prev) == [isNavigating |-> FALSE, currentRoute |-> NullRoute,
                           currentManeuverIndex |-> 0, currentLegIndex |-> 0,
                           distanceToNextManeuver |-> 0, isLoading |-> TRUE,
                           error |-> NullError]

\* The part of calculateRoute before the fetch is awaited: the loading flag
\* is set and the error cleared.
SetLoading(prev) == [prev EXCEPT !.isLoading = TRUE, !.error = NullError]

\* The error the try block throws for a response, or NullError when the
\* response is a route (the message of the caught Error).
ErrorOf_Verbatim(resp) ==
  IF resp.kind = "reject" THEN resp.message
  ELSE IF ~resp.ok THEN "HTTP error! status: 500"
  ELSE IF resp.data.trip.status # 0 THEN resp.data.trip.status_message
  ELSE NullError

ErrorOf(resp) ==
  IF resp.kind = "reject" THEN resp.message
  ELSE IF ~resp.ok THEN "HTTP error! status: 500"
  ELSE IF resp.data.trip.status # 0
    THEN (IF resp.data.trip.status_message # "" THEN resp.data.trip.status_message
          ELSE "Route calculation failed")
  ELSE NullError

\* The value calculateRoute resolves to: the route, or null.
RouteOf(resp) == IF ErrorOf(resp) = NullError THEN resp.data ELSE NullRoute

\* The updater with a catch block that leaves isLoading as it is.
SetRouteResult_KeepLoading(prev, resp) ==
  IF ErrorOf(resp) = NullError
    THEN [prev EXCEPT !.currentRoute = resp.data, !.isLoading = FALSE]
    ELSE [prev EXCEPT !.error = ErrorOf(resp)]

\* The updater with a catch block that also drops the route on display.
SetRouteResult_ClearRoute(prev, resp) ==
  IF ErrorOf(resp) = NullError
    THEN [prev EXCEPT !.currentRoute = resp.data, !.isLoading = FALSE]
    ELSE [prev EXCEPT !.isLoading = FALSE, !.error = ErrorOf(resp),
                      !.currentRoute = NullRoute]

\* The updater with a success branch that does not store the route.
SetRouteResult_DropRoute(prev, resp) ==
  IF ErrorOf(resp) = NullError
    THEN [prev EXCEPT !.isLoading = FALSE]
    ELSE [prev EXCEPT !.isLoading = FALSE, !.error = ErrorOf(resp)]

\* The updater with a success branch that leaves isLoading as it is.
SetRouteResult_StillLoading(prev, resp) ==
  IF ErrorOf(resp) = NullError
    THEN [prev EXCEPT !.currentRoute = resp.data]
    ELSE [prev EXCEPT !.isLoading = FALSE, !.error = ErrorOf(resp)]

\* The updater calculateRoute queues when the response is there.
SetRouteResult(prev, resp) ==
  IF ErrorOf(resp) = NullError
    THEN [prev EXCEPT !.currentRoute = resp.data, !.isLoading = FALSE]
    ELSE [prev EXCEPT !.isLoading = FALSE, !.error = ErrorOf(resp)]

\* ---------------------------------------------------------- speakInstruction
\* The condition of speakInstruction without the gate of speakingRef.
CanSpeak_NoGate == env.voiceEnabled /\ env.speechSynthesis

\* The condition of speakInstruction without the voiceEnabled option.
CanSpeak_IgnoreOption == env.speechSynthesis /\ ~speakingRef

\* speakInstruction starts an utterance when voice is enabled, the platform
\* has speech synthesis and no utterance is in flight.
CanSpeak == env.voiceEnabled /\ env.speechSynthesis /\ ~speakingRef

\* .replace(/<[^>]+>/g, ' ').replace(/\s+/g, ' ').trim()
RECURSIVE Collapse(_)
Collapse(text) ==
  IF Len(text) < 2 THEN text
  ELSE IF text[1] \in Spaces /\ text[2] \in Spaces THEN Collapse(Tail(text))
  ELSE <<text[1]>> \o Collapse(Tail(text))

RECURSIVE TrimLeft(_)
TrimLeft(text) ==
  IF Len(text) > 0 /\ text[1] \in Spaces THEN TrimLeft(Tail(text)) ELSE text

RECURSIVE TrimRight(_)
TrimRight(text) ==
  IF Len(text) > 0 /\ text[Len(text)] \in Spaces
    THEN TrimRight(SubSeq(text, 1, Len(text) - 1)) ELSE text

Clean(instruction) ==
  LET noTags == [i \in 1..Len(instruction) |->
                   IF instruction[i] \in Tags THEN " " ELSE instruction[i]]
  IN TrimRight(TrimLeft(Collapse(noTags)))

\* ------------------------------------------------------------ the fix handler
\* The distance threshold below which the cursor advances.
AdvanceThreshold == 8

\* The route the handler reads: prev.currentRoute || route.
HandlerRoute(prev, w) ==
  IF prev.currentRoute # NullRoute THEN prev.currentRoute ELSE w.route

\* The maneuvers of the leg at the cursor, <<>> when there is no such leg.
HandlerManeuvers(prev, w) ==
  LET legs == HandlerRoute(prev, w).trip.legs
  IN IF Has(legs, prev.currentLegIndex) THEN At(legs, prev.currentLegIndex).maneuvers
     ELSE <<>>

\* A variant of DistanceToNext that measures to the end point of the maneuver
\* after the current one.
DistanceToNext_NextManeuver(prev, w, lat) ==
  LET maneuvers == HandlerManeuvers(prev, w)
      shapePoints == IF Has(w.decodedLegShapes, prev.currentLegIndex)
                       THEN At(w.decodedLegShapes, prev.currentLegIndex) ELSE <<>>
  IN IF /\ Has(maneuvers, prev.currentManeuverIndex + 1)
        /\ Len(shapePoints) # 0
        /\ At(maneuvers, prev.currentManeuverIndex + 1).end_shape_index < Len(shapePoints)
       THEN LET endPoint == At(shapePoints, At(maneuvers, prev.currentManeuverIndex + 1).end_shape_index)
            IN calculateDistance(lat, 0, endPoint[2], endPoint[1])
       ELSE prev.distanceToNextManeuver

\* A variant of DistanceToNext that measures to the last point of the shape
\* when the end index lies beyond it.
DistanceToNext_Clamped(prev, w, lat) ==
  LET maneuvers == HandlerManeuvers(prev, w)
      shapePoints == IF Has(w.decodedLegShapes, prev.currentLegIndex)
                       THEN At(w.decodedLegShapes, prev.currentLegIndex) ELSE <<>>
  IN IF /\ Has(maneuvers, prev.currentManeuverIndex)
        /\ Len(shapePoints) # 0
       THEN LET endIndex == At(maneuvers, prev.currentManeuverIndex).end_shape_index
                endPoint == At(shapePoints, IF endIndex < Len(shapePoints) THEN endIndex
                                            ELSE Len(shapePoints) - 1)
            IN calculateDistance(lat, 0, endPoint[2], endPoint[1])
       ELSE prev.distanceToNextManeuver

\* distanceToNext: the distance from the fix to the end point of the current
\* maneuver in the shapes decoded when the watcher was created, or the
\* previous distance when that point cannot be resolved.
DistanceToNext(prev, w, lat) ==
  LET maneuvers == HandlerManeuvers(prev, w)
      shapePoints == IF Has(w.decodedLegShapes, prev.currentLegIndex)
                       THEN At(w.decodedLegShapes, prev.currentLegIndex) ELSE <<>>
  IN IF /\ Has(maneuvers, prev.currentManeuverIndex)
        /\ Len(shapePoints) # 0
        /\ At(maneuvers, prev.currentManeuverIndex).end_shape_index < Len(shapePoints)
       THEN LET endPoint == At(shapePoints, At(maneuvers, prev.currentManeuverIndex).end_shape_index)
            IN calculateDistance(lat, 0, endPoint[2], endPoint[1])
       ELSE prev.distanceToNextManeuver

\* A variant of Advances that also advances at exactly the threshold.
Advances_AtThreshold(prev, w, lat) ==
  /\ DistanceToNext(prev, w, lat) <= AdvanceThreshold
  /\ prev.currentManeuverIndex < Len(HandlerManeuvers(prev, w)) - 1

\* The advance condition of the handler.
Advances(prev, w, lat) ==
  /\ DistanceToNext(prev, w, lat) < AdvanceThreshold
  /\ prev.currentManeuverIndex < Len(HandlerManeuvers(prev, w)) - 1

\* A variant of NextManeuverIndex that starts from 0 instead of the cursor.
NextManeuverIndex_Restart(prev, w, lat) ==
  IF Advances(prev, w, lat) THEN prev.currentManeuverIndex + 1
  ELSE 0

\* nextManeuverIndex
NextManeuverIndex(prev, w, lat) ==
  IF Advances(prev, w, lat) THEN prev.currentManeuverIndex + 1
  ELSE prev.currentManeuverIndex

\* The handler returns prev when the leg is missing or has no maneuvers.
HandlerSkips(prev, w) == Len(HandlerManeuvers(prev, w)) = 0

\* The handler announces the maneuver it advances to when that maneuver has
\* an instruction text.
Announces(prev, w, lat) ==
  /\ ~HandlerSkips(prev, w)
  /\ Advances(prev, w, lat)
  /\ Len(At(HandlerManeuvers(prev, w), prev.currentManeuverIndex + 1).instruction) # 0

\* A variant of FixUpdater that does not store the new cursor.
FixUpdater_KeepCursor(prev, w, lat) ==
  IF HandlerSkips(prev, w) THEN prev
  ELSE [prev EXCEPT !.currentRoute = HandlerRoute(prev, w),
                    !.distanceToNextManeuver = DistanceToNext(prev, w, lat)]

\* A variant of FixUpdater that ends the session on arrival.
FixUpdater_StopOnArrival(prev, w, lat) ==
  IF HandlerSkips(prev, w) THEN prev
  ELSE [prev EXCEPT !.currentRoute = HandlerRoute(prev, w),
                    !.currentManeuverIndex = NextManeuverIndex(prev, w, lat),
                    !.distanceToNextManeuver = DistanceToNext(prev, w, lat),
                    !.isNavigating =
                       IF /\ DistanceToNext(prev, w, lat) < AdvanceThreshold
                          /\ prev.currentManeuverIndex = Len(HandlerManeuvers(prev, w)) - 1
                         THEN FALSE ELSE prev.isNavigating]

\* A variant of FixUpdater that moves to the next leg at the end of a leg.
FixUpdater_NextLeg(prev, w, lat) ==
  IF HandlerSkips(prev, w) THEN prev
  ELSE IF /\ DistanceToNext(prev, w, lat) < AdvanceThreshold
          /\ prev.currentManeuverIndex = Len(HandlerManeuvers(prev, w)) - 1
          /\ Has(HandlerRoute(prev, w).trip.legs, prev.currentLegIndex + 1)
    THEN [prev EXCEPT !.currentRoute = HandlerRoute(prev, w),
                      !.currentLegIndex = prev.currentLegIndex + 1,
                      !.currentManeuverIndex = 0,
                      !.distanceToNextManeuver = DistanceToNext(prev, w, lat)]
  ELSE [prev EXCEPT !.currentRoute = HandlerRoute(prev, w),
                    !.currentManeuverIndex = NextManeuverIndex(prev, w, lat),
                    !.distanceToNextManeuver = DistanceToNext(prev, w, lat)]

\* The updater of the watchPosition success callback.
FixUpdater(prev, w, lat) ==
  IF HandlerSkips(prev, w) THEN prev
  ELSE [prev EXCEPT !.currentRoute = HandlerRoute(prev, w),
                    !.currentManeuverIndex = NextManeuverIndex(prev, w, lat),
                    !.distanceToNextManeuver = DistanceToNext(prev, w, lat)]

\* ------------------------------------------------------------------ actions
\* History of the operation just run.
Did(op, id, lat) ==
  last' = [op |-> op, id |-> id, lat |-> lat, idx |-> navigationState.currentManeuverIndex,
           kind |-> "", resp |-> NoResponse, ret |-> Undefined]

\* History of a response: the request it answers and what the call of
\* calculateRoute or startNavigation resolved to.
DidRespond(r, resp, ret) ==
  last' = [op |-> "response", id |-> r.id, lat |-> 0,
           idx |-> navigationState.currentManeuverIndex,
           kind |-> r.kind, resp |-> resp, ret |-> ret]

\* A call of calculateRoute up to the await of the fetch; kind tells whether
\* startNavigation made the call.
IssueRequest(kind) ==
  /\ issued < MaxRequests
  /\ navigationState' = SetLoading(navigationState)
  /\ requests' = requests \cup {[id |-> issued + 1, kind |-> kind]}
  /\ issued' = issued + 1
  /\ stopped' = IF kind = "start" THEN FALSE ELSE stopped
  /\ Did(kind, issued + 1, 0)
  /\ UNCHANGED <<watchIdRef, speakingRef, watchers, nextWatchId, utterances, env, spoken>>

\* startNavigation(start, end) is called.
StartNavigation == IssueRequest("start")

\* calculateRoute(start, end) is called on its own.
CalculateRoute == IssueRequest("calc")

\* decodePolyline(shape, 6) for the shapes of the routes, computed once.
DecodedShape == [shape \in {ShapeA, ShapeB} |-> decodePolyline(shape, 6)]

\* decodedLegShapes of startNavigation: leg.shape ? decodePolyline(leg.shape, 6) : []
DecodedLegShapes(route) ==
  [i \in 1..Len(route.trip.legs) |->
     IF Len(route.trip.legs[i].shape) # 0 THEN DecodedShape[route.trip.legs[i].shape]
     ELSE <<>>]

\* A variant of EnterNavigating that leaves the cursor where it is.
EnterNavigating_KeepCursor(prev) ==
  [prev EXCEPT !.isNavigating = TRUE]

\* The state after startNavigation's own updater.
EnterNavigating(prev) ==
  [prev EXCEPT !.isNavigating = TRUE, !.currentManeuverIndex = 0, !.currentLegIndex = 0]

\* The value startNavigation resolves to: it returns nothing, both when
\* calculateRoute gave no route (return) and at the end of the function.
StartNavigationResult(route) == IF route = NullRoute THEN Undefined ELSE Undefined

\* The response of request r arrives: calculateRoute stores the result and
\* returns; when startNavigation made the call and got a route, it enters the
\* navigating state and creates a watcher.
RouteResponse(r, resp) ==
  /\ r \in requests
  /\ requests' = requests \ {r}
  /\ DidRespond(r, resp, IF r.kind = "start" THEN StartNavigationResult(RouteOf(resp))
                          ELSE RouteOf(resp))
  /\ IF r.kind = "start" /\ RouteOf(resp) # NullRoute
       THEN /\ navigationState' = EnterNavigating(SetRouteResult(navigationState, resp))
            /\ spoken' = <<>>
            /\ IF env.geolocation
                 THEN /\ watchers' = watchers \cup
                           {[id |-> nextWatchId, route |-> RouteOf(resp),
                             decodedLegShapes |-> DecodedLegShapes(RouteOf(resp))]}
                      /\ watchIdRef' = nextWatchId
                      /\ nextWatchId' = nextWatchId + 1
                 ELSE UNCHANGED <<watchers, watchIdRef, nextWatchId>>
       ELSE /\ navigationState' = SetRouteResult(navigationState, resp)
            /\ UNCHANGED <<watchers, watchIdRef, nextWatchId, spoken>>
  /\ UNCHANGED <<speakingRef, issued, utterances, env, stopped>>

\* The platform delivers a fix at latitude lat to the success callback of the
\* live watcher w.
Fix(w, lat) ==
  /\ w \in watchers
  /\ navigationState' = FixUpdater(navigationState, w, lat)
  /\ Did("fix", w.id, lat)
  /\ IF Announces(navigationState, w, lat)
       THEN /\ spoken' = Append(spoken, navigationState.currentManeuverIndex + 1)
            /\ IF CanSpeak
                 THEN /\ speakingRef' = TRUE
                      /\ utterances' = Append(utterances,
                           Clean(At(HandlerManeuvers(navigationState, w),
                                    navigationState.currentManeuverIndex + 1).instruction))
                 ELSE UNCHANGED <<speakingRef, utterances>>
       ELSE UNCHANGED <<spoken, speakingRef, utterances>>
  /\ UNCHANGED <<watchIdRef, requests, issued, watchers, nextWatchId, env, stopped>>

\* An error callback that gives the watcher up.
FixError_Unsubscribes(w) ==
  /\ w \in watchers
  /\ watchers' = watchers \ {w}
  /\ Did("fixError", w.id, 0)
  /\ UNCHANGED <<navigationState, watchIdRef, speakingRef, requests, issued,
                 nextWatchId, utterances, env, spoken, stopped>>

\* The platform reports a position error to the error callback of w, which
\* only logs it.
FixError(w) ==
  /\ w \in watchers
  /\ Did("fixError", w.id, 0)
  /\ UNCHANGED <<navigationState, watchIdRef, speakingRef, requests, issued, watchers,
                 nextWatchId, utterances, env, spoken, stopped>>

\* if (watchIdRef.current)
Truthy(id) == id # NullWatchId /\ id # 0

\* The watchers left after stopNavigation's clearWatch.
AfterClearWatch(live, ref) ==
  IF Truthy(ref) THEN {w \in live : w.id # ref} ELSE live

\* stopNavigation()
StopNavigation ==
  /\ watchers' = AfterClearWatch(watchers, watchIdRef)
  /\ watchIdRef' = IF Truthy(watchIdRef) THEN NullWatchId ELSE watchIdRef
  /\ navigationState' = EmptyState
  /\ stopped' = TRUE
  /\ spoken' = <<>>
  /\ Did("stop", 0, 0)
  /\ UNCHANGED <<speakingRef, requests, issued, nextWatchId, utterances, env>>

\* null, the value getCurrentInstruction returns when there is no maneuver.
NullManeuver == [null |-> TRUE]

\* The lookup without the test of isNavigating.
getCurrentInstruction_IgnoreNavigating(st) ==
  IF st.currentRoute = NullRoute THEN NullManeuver
  ELSE IF ~Has(st.currentRoute.trip.legs, st.currentLegIndex) THEN NullManeuver
  ELSE LET currentLeg == At(st.currentRoute.trip.legs, st.currentLegIndex) IN
       IF Has(currentLeg.maneuvers, st.currentManeuverIndex)
         THEN At(currentLeg.maneuvers, st.currentManeuverIndex)
         ELSE NullManeuver

\* getCurrentInstruction(): the maneuver at the cursor of state st, or null.
getCurrentInstruction(st) ==
  IF st.currentRoute = NullRoute \/ ~st.isNavigating THEN NullManeuver
  ELSE IF ~Has(st.currentRoute.trip.legs, st.currentLegIndex) THEN NullManeuver
  ELSE LET currentLeg == At(st.currentRoute.trip.legs, st.currentLegIndex) IN
       IF Has(currentLeg.maneuvers, st.currentManeuverIndex)
         THEN At(currentLeg.maneuvers, st.currentManeuverIndex)
         ELSE NullManeuver

\* The Speak button of the instruction panel: handleSpeak passes the text of
\* the displayed instruction, as it is, to speakInstruction.
SpeakButton ==
  /\ navigationState.isNavigating
  /\ env.speechSynthesis
  /\ getCurrentInstruction(navigationState) # NullManeuver
  /\ Len(getCurrentInstruction(navigationState).instruction) > 0
  /\ IF CanSpeak
       THEN /\ speakingRef' = TRUE
            /\ utterances' = Append(utterances,
                                    getCurrentInstruction(navigationState).instruction)
       ELSE UNCHANGED <<speakingRef, utterances>>
  /\ Did("speak", 0, 0)
  /\ UNCHANGED <<navigationState, watchIdRef, requests, issued, watchers, nextWatchId,
                 env, spoken, stopped>>

\* An utterance whose onend and onerror leave the gate taken.
UtteranceEnd_KeepGate ==
  /\ Len(utterances) > 0
  /\ utterances' = Tail(utterances)
  /\ Did("utteranceEnd", 0, 0)
  /\ UNCHANGED <<navigationState, watchIdRef, speakingRef, requests, issued, watchers,
                 nextWatchId, env, spoken, stopped>>

\* The utterance in flight ends or fails: onend and onerror release the gate.
UtteranceEnd ==
  /\ Len(utterances) > 0
  /\ utterances' = Tail(utterances)
  /\ speakingRef' = FALSE
  /\ Did("utteranceEnd", 0, 0)
  /\ UNCHANGED <<navigationState, watchIdRef, requests, issued, watchers, nextWatchId,
                 env, spoken, stopped>>

\* The hook called by any component: startNavigation, calculateRoute,
\* stopNavigation and speakInstruction may be called at any time.
Next ==
  \/ StartNavigation /\ UNCHANGED <<viewVars, codecVars>>
  \/ CalculateRoute /\ UNCHANGED <<viewVars, codecVars>>
  \/ /\ \E r \in requests : \E resp \in Responses : RouteResponse(r, resp)
     /\ UNCHANGED <<viewVars, codecVars>>
  \/ /\ \E w \in watchers : \E lat \in FixLats : Fix(w, lat)
     /\ UNCHANGED <<viewVars, codecVars>>
  \/ /\ \E w \in watchers : FixError(w)
     /\ UNCHANGED <<viewVars, codecVars>>
  \/ StopNavigation /\ UNCHANGED <<viewVars, codecVars>>
  \/ SpeakButton /\ UNCHANGED <<viewVars, codecVars>>
  \/ UtteranceEnd /\ UNCHANGED <<viewVars, codecVars>>

Spec == Init /\ [][Next]_vars

\* ------------------------------------------------------------- properties
\* The maneuvers of the leg at the cursor of state st, <<>> when st has no
\* route or no such leg.
LegManeuvers(st) ==
  IF st.currentRoute = NullRoute THEN <<>>
  ELSE IF ~Has(st.currentRoute.trip.legs, st.currentLegIndex) THEN <<>>
  ELSE At(st.currentRoute.trip.legs, st.currentLegIndex).maneuvers

\* The state has a maneuver at its cursor whose end point lies in the shape
\* of its own route.
HasEndPoint(st) ==
  /\ Has(LegManeuvers(st), st.currentManeuverIndex)
  /\ Has(decodePolyline(At(st.currentRoute.trip.legs, st.currentLegIndex).shape, 6),
         At(LegManeuvers(st), st.currentManeuverIndex).end_shape_index)

\* The latitude of that end point.
EndPointLat(st) ==
  At(decodePolyline(At(st.currentRoute.trip.legs, st.currentLegIndex).shape, 6),
     At(LegManeuvers(st), st.currentManeuverIndex).end_shape_index)[2]

\* C1: after stopNavigation has returned, a fix delivered before the next
\* startNavigation changes no field of the navigation state and announces
\* nothing.
C1_NoFixAfterStop ==
  [][(stopped /\ last'.op = "fix") =>
       /\ navigationState' = navigationState
       /\ spoken' = spoken
       /\ utterances' = utterances]_vars

\* C2: once stopNavigation has returned and until startNavigation is called
\* again, the session is not navigating and no watcher is live.
C2_StopIsTotal ==
  stopped => (~navigationState.isNavigating /\ watchers = {})

\* C3: at most one watchPosition watcher is live at any time.
C3_AtMostOneWatcher == Cardinality(watchers) <= 1

\* C4: the response of a request that is not the most recently issued one
\* changes neither the navigation state nor the subscriptions.
C4_StaleResponseDiscarded ==
  [][(last'.op = "response" /\ last'.id < issued) =>
       /\ navigationState' = navigationState
       /\ watchers' = watchers
       /\ watchIdRef' = watchIdRef]_vars

\* C5: a fix leaves the cursor where it is or moves it one step forward; it
\* moves it exactly when the distance the handler evaluated is below 8 and the
\* cursor is not on the last maneuver of its leg.
C5_AdvanceByOneBelowThreshold ==
  [][last'.op = "fix" =>
       /\ navigationState'.currentManeuverIndex \in
            {navigationState.currentManeuverIndex, navigationState.currentManeuverIndex + 1}
       /\ (navigationState'.currentManeuverIndex = navigationState.currentManeuverIndex + 1)
            <=> (/\ navigationState'.distanceToNextManeuver < 8
                 /\ navigationState.currentManeuverIndex
                      < Len(LegManeuvers(navigationState')) - 1)]_vars

\* C5 happens: a fix below the threshold has advanced the cursor of a
\* navigating session.
C5_Witness ==
  /\ last.op = "fix"
  /\ navigationState.isNavigating
  /\ navigationState.currentManeuverIndex = last.idx + 1
  /\ navigationState.distanceToNextManeuver < 8

\* C6: a fix 8 m or farther from the end point of the maneuver at the cursor
\* of the current route does not advance the cursor.
C6_FarFixNeverAdvances ==
  [][(/\ last'.op = "fix"
      /\ HasEndPoint(navigationState)
      /\ calculateDistance(last'.lat, 0, EndPointLat(navigationState), 0) >= 8) =>
       navigationState'.currentManeuverIndex = navigationState.currentManeuverIndex]_vars

\* C7: a fix never moves the cursor backwards.
C7_CursorMonotonic ==
  [][last'.op = "fix" =>
       navigationState'.currentManeuverIndex >= navigationState.currentManeuverIndex]_vars

\* C7 happens: a navigating session whose cursor had advanced took a fix that
\* did not advance it.
C7_Witness ==
  /\ last.op = "fix"
  /\ navigationState.isNavigating
  /\ last.idx >= 1
  /\ navigationState.currentManeuverIndex = last.idx

\* C8 as claimed: right after a route request is started the session is in
\* its empty state.
C8_RequestResetsSession ==
  last.op \in {"start", "calc"} =>
    /\ ~navigationState.isNavigating
    /\ navigationState.currentRoute = NullRoute
    /\ navigationState.currentManeuverIndex = 0
    /\ navigationState.currentLegIndex = 0
    /\ navigationState.distanceToNextManeuver = 0

\* C8 amended: starting a route request sets isLoading, clears error and
\* leaves every other field of the navigation state as it was.
C8_RequestKeepsSession ==
  [][last'.op \in {"start", "calc"} =>
       navigationState' = [navigationState EXCEPT !.isLoading = TRUE, !.error = NullError]]_vars

\* C8 happens: startNavigation was called on a navigating session whose cursor
\* had advanced, and the route and the cursor are still there.
C8_Witness ==
  /\ last.op = "start"
  /\ navigationState.isNavigating
  /\ navigationState.currentRoute # NullRoute
  /\ navigationState.currentManeuverIndex > 0
  /\ navigationState.isLoading

\* C9: the fix handler hands a maneuver to speakInstruction only when the
\* cursor moves onto it, and never a maneuver it has handed over before in the
\* same session.
C9_AnnouncedAtMostOnce ==
  [][(spoken' # spoken /\ spoken' # <<>>) =>
       /\ last'.op = "fix"
       /\ navigationState'.currentManeuverIndex = navigationState.currentManeuverIndex + 1
       /\ spoken' = Append(spoken, navigationState'.currentManeuverIndex)
       /\ \A i \in 1..Len(spoken) : spoken[i] # navigationState'.currentManeuverIndex]_vars

\* C9 happens: two maneuvers were announced in one session and fixes kept
\* arriving on the last one.
C9_Witness ==
  /\ Len(spoken) = 2
  /\ last.op = "fix"
  /\ navigationState.currentManeuverIndex = last.idx

\* The decoded shape of RouteA's leg.
DecodedShapeA == decodePolyline(ShapeA, 6)

\* The latitude of the point at shape index i of RouteA's leg.
PointLatA(i) == At(DecodedShapeA, i)[2]

\* lat is within d metres of latitude p.
Near(lat, p, d) == calculateDistance(lat, 0, p, 0) <= d

\* The fix that leads from state st was delivered, in a session navigating
\* RouteA, to a watcher created for RouteA.
FixOnRouteA(st, id) ==
  /\ st.isNavigating
  /\ st.currentRoute = RouteA
  /\ \E w \in watchers : w.id = id /\ w.route = RouteA

\* C10 as claimed: on the route with maneuvers ending at shape indices 0, 5
\* and 9, a fix within 5 m of the index-5 point taken with the cursor on
\* maneuver 0 has moved the cursor to 1 and announced maneuver 1.
C10_AdvanceNearIndex5 ==
  (/\ last.op = "fix"
   /\ FixOnRouteA(navigationState, last.id)
   /\ last.idx = 0
   /\ Near(last.lat, PointLatA(5), 5)) =>
    /\ navigationState.currentManeuverIndex = 1
    /\ spoken = <<1>>

\* C10 amended: on that route the cursor on maneuver 0 is moved by a fix
\* within 5 m of the index-0 point, the end point of maneuver 0: such a fix
\* moves the cursor to 1 and hands the cleaned text of maneuver 1 to
\* speakInstruction, once; later such fixes move nothing and announce
\* nothing.  A fix within 5 m of the index-5 point leaves the cursor on 0.
C10_AdvanceNearIndex0 ==
  [][(last'.op = "fix" /\ FixOnRouteA(navigationState, last'.id)) =>
       /\ (Near(last'.lat, PointLatA(0), 5) /\ navigationState.currentManeuverIndex = 0) =>
            /\ navigationState'.currentManeuverIndex = 1
            /\ spoken' = Append(spoken, 1)
            /\ utterances' = IF CanSpeak THEN Append(utterances, <<"Turn", " ", "left">>)
                             ELSE utterances
       /\ (Near(last'.lat, PointLatA(0), 5) /\ navigationState.currentManeuverIndex > 0) =>
            /\ navigationState'.currentManeuverIndex = navigationState.currentManeuverIndex
            /\ spoken' = spoken
            /\ utterances' = utterances
       /\ (Near(last'.lat, PointLatA(5), 5) /\ navigationState.currentManeuverIndex = 0) =>
            /\ navigationState'.currentManeuverIndex = 0
            /\ spoken' = spoken]_vars

\* C10 happens: after the cursor moved from 0 to 1 and maneuver 1 was
\* announced, another fix at the index-0 point arrived and moved nothing.
C10_Witness ==
  /\ last.op = "fix"
  /\ FixOnRouteA(navigationState, last.id)
  /\ Near(last.lat, PointLatA(0), 5)
  /\ last.idx = 1
  /\ navigationState.currentManeuverIndex = 1
  /\ spoken = <<1>>
  /\ utterances = << <<"Turn", " ", "left">> >>

\* The last operation called speakInstruction: the Speak button, or a fix
\* that advanced the cursor.
SpeakCalled ==
  \/ last.op = "speak"
  \/ last.op = "fix" /\ navigationState.currentManeuverIndex = last.idx + 1

\* C11: at most one utterance is in flight, and it is in flight exactly while
\* speakingRef holds: a call of speakInstruction made while the gate is taken
\* starts no utterance and queues none, and with voice enabled and speech
\* synthesis present a call leaves exactly one utterance in flight.
C11_OneUtteranceInFlight ==
  /\ Len(utterances) <= 1
  /\ speakingRef <=> Len(utterances) = 1
  /\ (SpeakCalled /\ env.voiceEnabled /\ env.speechSynthesis) => Len(utterances) = 1

\* The Speak button was pressed while the announcement of the maneuver was in
\* flight: its raw text was dropped.
C11_Witness ==
  /\ last.op = "speak"
  /\ speakingRef
  /\ Len(utterances) = 1
  /\ utterances[1] # getCurrentInstruction(navigationState).instruction

\* C12: getCurrentInstruction returns null when the session is not
\* navigating, when there is no route, and when the cursor names no leg or
\* no maneuver of the route; otherwise it returns the maneuver at
\* (currentLegIndex, currentManeuverIndex).
C12_CurrentInstructionAtCursor ==
  LET st == navigationState
      got == getCurrentInstruction(st)
  IN IF ~st.isNavigating \/ st.currentRoute = NullRoute
       THEN got = NullManeuver
     ELSE IF \/ st.currentLegIndex \notin 0 .. (Len(st.currentRoute.trip.legs) - 1)
             \/ st.currentManeuverIndex \notin
                  0 .. (Len(st.currentRoute.trip.legs[st.currentLegIndex + 1].maneuvers) - 1)
       THEN got = NullManeuver
     ELSE got = st.currentRoute.trip.legs[st.currentLegIndex + 1]
                  .maneuvers[st.currentManeuverIndex + 1]

\* The session navigates on a route with two maneuvers with the cursor of an
\* earlier route, 2: the lookup finds no maneuver.
C12_Witness ==
  /\ navigationState.isNavigating
  /\ navigationState.currentRoute = RouteB
  /\ navigationState.currentManeuverIndex = 2
  /\ getCurrentInstruction(navigationState) = NullManeuver

\* The response makes calculateRoute throw: the fetch rejected, the HTTP
\* status is not ok, or the trip status is not 0.
Failed(resp) ==
  \/ resp.kind = "reject"
  \/ resp.kind = "http" /\ ~resp.ok
  \/ resp.kind = "http" /\ resp.ok /\ resp.data.trip.status # 0

\* C13: when the route request of startNavigation fails, error is set to a
\* non-null message and isLoading becomes false, and the request neither sets
\* isNavigating nor creates a position subscription: isNavigating, route,
\* cursor, watchers and watchIdRef stay as they were.
C13_FailedStartLeavesSession ==
  [][(last'.op = "response" /\ last'.kind = "start" /\ Failed(last'.resp)) =>
       /\ navigationState'.error # NullError
       /\ ~navigationState'.isLoading
       /\ navigationState'.isNavigating = navigationState.isNavigating
       /\ navigationState'.currentRoute = navigationState.currentRoute
       /\ navigationState'.currentManeuverIndex = navigationState.currentManeuverIndex
       /\ navigationState'.currentLegIndex = navigationState.currentLegIndex
       /\ watchers' = watchers
       /\ watchIdRef' = watchIdRef
       /\ nextWatchId' = nextWatchId]_vars

\* A start request has failed: the session shows the error, does not load,
\* does not navigate and has no watcher.
C13_Witness ==
  /\ last.op = "response"
  /\ last.kind = "start"
  /\ Failed(last.resp)
  /\ navigationState.error # NullError
  /\ ~navigationState.isLoading
  /\ ~navigationState.isNavigating
  /\ watchers = {}

\* C14: a failed route request is surfaced to the caller of startNavigation:
\* the value the call resolves to after a failed request differs from the
\* value it resolves to after a successful one.
C14_FailureDistinguishable ==
  (last.op = "response" /\ last.kind = "start" /\ Failed(last.resp)) =>
    \A resp \in Responses : ~Failed(resp) => last.ret # StartNavigationResult(RouteOf(resp))

\* C15: when the route request of startNavigation succeeds, the session is
\* navigating on the returned route with the cursor at leg 0, maneuver 0,
\* whatever cursor an earlier session left, and where geolocation is
\* available a newly created watcher of that route is the one stored in
\* watchIdRef.
C15_SuccessfulStartEntersNavigating ==
  (last.op = "response" /\ last.kind = "start" /\ ~Failed(last.resp)) =>
    /\ navigationState.isNavigating
    /\ navigationState.currentRoute = last.resp.data
    /\ navigationState.currentLegIndex = 0
    /\ navigationState.currentManeuverIndex = 0
    /\ ~navigationState.isLoading
    /\ env.geolocation =>
         \E w \in watchers : /\ w.id = watchIdRef
                             /\ w.id = nextWatchId - 1
                             /\ w.route = last.resp.data

\* A start request succeeded while the cursor of the earlier session was 2.
C15_Witness ==
  /\ last.op = "response"
  /\ last.kind = "start"
  /\ ~Failed(last.resp)
  /\ last.idx = 2
  /\ env.geolocation
  /\ navigationState.isNavigating
  /\ navigationState.currentManeuverIndex = 0
  /\ Cardinality(watchers) = 2

\* C16: from every state stopNavigation clears the watcher stored in
\* watchIdRef and resets the session to the empty state (isNavigating false,
\* currentRoute null, cursor (0, 0), distance 0, isLoading false, error null),
\* and a second call changes nothing: it finds no watcher to clear and writes
\* the state that is already there.
C16_StopIdempotent ==
  [][last'.op = "stop" =>
       /\ navigationState' = EmptyState
       /\ navigationState' = [isNavigating |-> FALSE, currentRoute |-> NullRoute,
                              currentManeuverIndex |-> 0, currentLegIndex |-> 0,
                              distanceToNextManeuver |-> 0, isLoading |-> FALSE,
                              error |-> NullError]
       /\ watchIdRef' = NullWatchId
       /\ \A w \in watchers' : w \in watchers /\ w.id # watchIdRef
       /\ AfterClearWatch(watchers', watchIdRef') = watchers'
       /\ ~Truthy(watchIdRef')]_vars

\* The fix at latitude lat, delivered in state st to a watcher of the route
\* of st, is closer than 8 m to the end point of the last maneuver of the
\* leg, and the cursor of st is on that maneuver.
ArrivalFix(st, w, lat) ==
  /\ st.isNavigating
  /\ st.currentRoute = w.route
  /\ Len(LegManeuvers(st)) > 0
  /\ st.currentManeuverIndex = Len(LegManeuvers(st)) - 1
  /\ Has(At(w.decodedLegShapes, st.currentLegIndex),
         At(LegManeuvers(st), st.currentManeuverIndex).end_shape_index)
  /\ calculateDistance(lat, 0,
       At(At(w.decodedLegShapes, st.currentLegIndex),
          At(LegManeuvers(st), st.currentManeuverIndex).end_shape_index)[2], 0) < 8

\* C17: arrival does not stop the session. A fix closer than 8 m to the end
\* point of the last maneuver leaves isNavigating true, the cursor on the
\* last maneuver and the watchers alive, and isNavigating turns false in a
\* stopNavigation step only.
C17_ArrivalKeepsSession ==
  [][/\ \A w \in watchers :
          (last'.op = "fix" /\ last'.id = w.id /\ ArrivalFix(navigationState, w, last'.lat)) =>
            /\ navigationState'.isNavigating
            /\ navigationState'.currentManeuverIndex = navigationState.currentManeuverIndex
            /\ navigationState'.currentRoute = navigationState.currentRoute
            /\ watchers' = watchers
            /\ watchIdRef' = watchIdRef
     /\ (navigationState.isNavigating /\ ~navigationState'.isNavigating) => last'.op = "stop"]_vars

\* A fix at the end point of the last maneuver of RouteA was processed with
\* the cursor on that maneuver, and the session still navigates.
C17_Witness ==
  /\ last.op = "fix"
  /\ last.idx = 2
  /\ last.lat = 90
  /\ navigationState.isNavigating
  /\ navigationState.currentRoute = RouteA
  /\ navigationState.currentManeuverIndex = 2
  /\ navigationState.distanceToNextManeuver = 0
  /\ \E w \in watchers : w.id = last.id /\ w.id = watchIdRef /\ w.route = RouteA

\* In state st the end_shape_index of the maneuver at the cursor names no
\* point of the leg's point sequence as watcher w decoded it: the sequence is
\* empty or shorter than the index + 1.
EndPointUnresolvable(st, w) ==
  /\ Has(HandlerManeuvers(st, w), st.currentManeuverIndex)
  /\ Has(w.decodedLegShapes, st.currentLegIndex)
  /\ Len(At(w.decodedLegShapes, st.currentLegIndex))
       < At(HandlerManeuvers(st, w), st.currentManeuverIndex).end_shape_index + 1

\* C18: when the end_shape_index of the current maneuver is not a valid
\* index into the decoded point sequence of the leg, a fix leaves
\* distanceToNextManeuver at its previous value.
C18_DistanceRetained ==
  [][\A w \in watchers :
       (last'.op = "fix" /\ last'.id = w.id /\ EndPointUnresolvable(navigationState, w)) =>
         navigationState'.distanceToNextManeuver = navigationState.distanceToNextManeuver]_vars

\* A session on RouteB stands on the maneuver whose end index 3 lies beyond
\* the 3 points of the shape: a fix 120 m from the last fix was processed by
\* the watcher of RouteB and the distance is still the 2 m stored before.
C18_Witness ==
  /\ last.op = "fix"
  /\ last.lat = 0
  /\ last.idx = 1
  /\ navigationState.isNavigating
  /\ navigationState.currentRoute = RouteB
  /\ navigationState.currentManeuverIndex = 1
  /\ navigationState.distanceToNextManeuver = 2
  /\ \E w \in watchers : /\ w.id = last.id
                         /\ w.route = RouteB
                         /\ EndPointUnresolvable(navigationState, w)

\* C19: in every state while navigating, distanceToNextManeuver is the
\* distance from the latest fix to the end point of the maneuver at the
\* current cursor; stated for the states right after a fix, where the latest
\* fix is known.
C19_DistanceMatchesCursor ==
  (last.op = "fix" /\ navigationState.isNavigating /\ HasEndPoint(navigationState)) =>
    navigationState.distanceToNextManeuver =
      calculateDistance(last.lat, 0, EndPointLat(navigationState), 0)

Here == [longitude |-> 0, latitude |-> 0]

\* getCurrentLocation(): the My Location button, disabled while isLocating.
GetCurrentLocation ==
  /\ ~isLocating
  /\ isLocating' = env.geolocation
  /\ Did("getCurrentLocation", 0, 0)
  /\ UNCHANGED <<currentLocation, showNavigationInstructions>>
  /\ UNCHANGED <<navigationState, watchIdRef, speakingRef, requests, issued, watchers,
                 nextWatchId, utterances, env, spoken, stopped>>

\* getCurrentPosition calls back: with a position, or with an error that is
\* logged and alerted.
LocationResult(ok) ==
  /\ isLocating
  /\ currentLocation' = IF ok THEN Here ELSE currentLocation
  /\ isLocating' = FALSE
  /\ Did("location", 0, 0)
  /\ UNCHANGED showNavigationInstructions
  /\ UNCHANGED <<navigationState, watchIdRef, speakingRef, requests, issued, watchers,
                 nextWatchId, utterances, env, spoken, stopped>>

\* disabled={!currentLocation || navigation.isLoading}
GetDirectionsDisabled == currentLocation = NullLocation \/ navigationState.isLoading

\* The Get Directions button is pressed.  A disabled button runs no handler;
\* otherwise handleGetDirections shows the panel and calls startNavigation.
HandleGetDirections ==
  IF GetDirectionsDisabled
    THEN /\ Did("getDirections", 0, 0)
         /\ UNCHANGED viewVars
         /\ UNCHANGED <<navigationState, watchIdRef, speakingRef, requests, issued,
                        watchers, nextWatchId, utterances, env, spoken, stopped>>
    ELSE /\ showNavigationInstructions' = TRUE
         /\ StartNavigation
         /\ UNCHANGED <<currentLocation, isLocating>>

\* handleStopNavigation(): the Stop Navigation button, shown while navigating.
HandleStopNavigation ==
  /\ navigationState.isNavigating
  /\ StopNavigation
  /\ showNavigationInstructions' = FALSE
  /\ UNCHANGED <<currentLocation, isLocating>>

\* The Speak button of the instruction panel, rendered while the panel is
\* shown and the session navigates.
PressSpeak ==
  /\ showNavigationInstructions
  /\ SpeakButton
  /\ UNCHANGED viewVars

\* The hook driven by the MapView component.
NextView ==
  \/ GetCurrentLocation /\ UNCHANGED codecVars
  \/ (\E ok \in BOOLEAN : LocationResult(ok)) /\ UNCHANGED codecVars
  \/ HandleGetDirections /\ UNCHANGED codecVars
  \/ HandleStopNavigation /\ UNCHANGED codecVars
  \/ PressSpeak /\ UNCHANGED codecVars
  \/ /\ \E r \in requests : \E resp \in ViewResponses : RouteResponse(r, resp)
     /\ UNCHANGED <<viewVars, codecVars>>
  \/ /\ \E w \in watchers : \E lat \in FixLats : Fix(w, lat)
     /\ UNCHANGED <<viewVars, codecVars>>
  \/ /\ \E w \in watchers : FixError(w)
     /\ UNCHANGED <<viewVars, codecVars>>
  \/ UtteranceEnd /\ UNCHANGED <<viewVars, codecVars>>

SpecView == InitView /\ [][NextView]_vars

\* C21: a route response with status 0 that has no legs, or a leg without
\* maneuvers, never becomes the currentRoute of the session and the session
\* never navigates with it.
C21_EmptyRouteRejected ==
  navigationState.currentRoute # NullRoute =>
    /\ Len(navigationState.currentRoute.trip.legs) > 0
    /\ \A i \in 1..Len(navigationState.currentRoute.trip.legs) :
         Len(navigationState.currentRoute.trip.legs[i].maneuvers) > 0

\* C22: a route request that fails while a route is present changes only
\* isLoading and error: currentRoute, currentLegIndex, currentManeuverIndex,
\* distanceToNextManeuver and isNavigating are left as they were.
C22_FailureKeepsRoute ==
  [][(/\ last'.op = "response"
      /\ Failed(last'.resp)
      /\ navigationState.currentRoute # NullRoute) =>
       /\ navigationState'.currentRoute = navigationState.currentRoute
       /\ navigationState'.currentLegIndex = navigationState.currentLegIndex
       /\ navigationState'.currentManeuverIndex = navigationState.currentManeuverIndex
       /\ navigationState'.distanceToNextManeuver = navigationState.distanceToNextManeuver
       /\ navigationState'.isNavigating = navigationState.isNavigating
       /\ ~navigationState'.isLoading
       /\ navigationState'.error # NullError]_vars

\* A request failed in a navigating session whose cursor had advanced: the
\* route, the cursor and the distance are still there, next to the error.
C22_Witness ==
  /\ last.op = "response"
  /\ Failed(last.resp)
  /\ navigationState.isNavigating
  /\ navigationState.currentRoute = RouteA
  /\ navigationState.currentManeuverIndex = 1
  /\ navigationState.distanceToNextManeuver > 0
  /\ navigationState.error # NullError

\* C23: a position error delivered to the error callback of a watcher changes
\* no field of the navigation state and ends neither the session nor a
\* subscription, and the fix that follows it is processed as any other: the
\* distance to the resolvable end point is stored and the cursor advances by
\* one exactly below the threshold and before the last maneuver.
C23_FixErrorIgnored ==
  [][/\ last'.op = "fixError" =>
          /\ navigationState' = navigationState
          /\ watchers' = watchers
          /\ watchIdRef' = watchIdRef
          /\ utterances' = utterances
          /\ speakingRef' = speakingRef
     /\ \A w \in watchers :
          (/\ last.op = "fixError"
           /\ last'.op = "fix"
           /\ last'.id = w.id
           /\ Len(HandlerManeuvers(navigationState, w)) > 0) =>
            /\ ~EndPointUnresolvable(navigationState, w)
                 /\ Has(HandlerManeuvers(navigationState, w),
                        navigationState.currentManeuverIndex) =>
                 navigationState'.distanceToNextManeuver =
                   calculateDistance(last'.lat, 0,
                     At(At(w.decodedLegShapes, navigationState.currentLegIndex),
                        At(HandlerManeuvers(navigationState, w),
                           navigationState.currentManeuverIndex).end_shape_index)[2], 0)
            /\ navigationState'.currentManeuverIndex =
                 IF /\ navigationState'.distanceToNextManeuver < 8
                    /\ navigationState.currentManeuverIndex
                         < Len(HandlerManeuvers(navigationState, w)) - 1
                   THEN navigationState.currentManeuverIndex + 1
                   ELSE navigationState.currentManeuverIndex]_vars

\* A position error reached a navigating session whose cursor had advanced;
\* the session, its watcher and its distance are as before.
C23_Witness ==
  /\ last.op = "fixError"
  /\ navigationState.isNavigating
  /\ navigationState.currentManeuverIndex = 1
  /\ navigationState.distanceToNextManeuver = 40
  /\ \E w \in watchers : w.id = last.id /\ w.id = watchIdRef

\* ------------------------------------------------------------ polyline codec
\* The encoder of the polyline algorithm decodePolyline is based on: a value
\* is shifted left by one, inverted when negative, and written in 5-bit
\* chunks from the low end, each but the last with the bit 0x20, plus 63.
RECURSIVE EncodeChunks(_)
EncodeChunks(value) ==
  IF value >= 32 THEN <<(value % 32) + 32 + 63>> \o EncodeChunks(value \div 32)
  ELSE <<value + 63>>

EncodeValue(v) == EncodeChunks(IF v < 0 THEN BitNot(2 * v) ELSE 2 * v)

\* For every point the latitude delta, then the longitude delta, against the
\* point before it (the first against 0, 0).
RECURSIVE EncodeFrom(_, _, _, _)
EncodeFrom(pts, i, prevLat, prevLng) ==
  IF i > Len(pts) THEN <<>>
  ELSE EncodeValue(pts[i][2] - prevLat) \o EncodeValue(pts[i][1] - prevLng)
         \o EncodeFrom(pts, i + 1, pts[i][2], pts[i][1])

encodePolyline(pts) == EncodeFrom(pts, 1, 0, 0)

\* Coordinates at precision 6 (degrees times 10^6), the ends of the longitude
\* range among them: deltas of one chunk and of up to six, of both signs.
CodecLngs == {-180000000, 31, 180000000}

CodecLats == {38500000, 0, -8}

CodecPoints == {<<lng, lat>> : lng \in CodecLngs, lat \in CodecLats}

PointSeqs == UNION {[1..n -> CodecPoints] : n \in 0..MaxPoints}

\* Characters of strings that no encoder wrote: '?' (chunk 0, the last of
\* its value), '_' (chunk 0 with the continuation bit) and ' ' (below 63, a
\* negative byte).
RawChars == {63, 95, 32}

RawStrings == UNION {[1..n -> RawChars] : n \in 0..MaxRaw}

\* A caller holds a sequence of points and nothing is encoded yet, or it
\* holds a string of arbitrary characters for the decoder.
InitCodec ==
  /\ HookInit
  /\ env = FullPlatform
  /\ ViewInit
  /\ codecCoordinates = <<>>
  /\ codecIndex = 0
  /\ decoder = DecoderIdle
  /\ \/ /\ points \in PointSeqs
        /\ codecPolyline = <<>>
        /\ codecPc = "points"
     \/ /\ points = <<>>
        /\ codecPolyline \in RawStrings
        /\ codecPc = "encoded"

\* The points are encoded at precision 6.
Encode ==
  /\ codecPc = "points"
  /\ codecPolyline' = encodePolyline(points)
  /\ codecPc' = "encoded"
  /\ UNCHANGED <<points, codecCoordinates, codecIndex, decoder>>

\* The string loses its last character on the way to the decoder.
Truncate ==
  /\ codecPc = "encoded"
  /\ Len(codecPolyline) > 0
  /\ Len(encodePolyline(points)) - Len(codecPolyline) < MaxCut
  /\ codecPolyline' = SubSeq(codecPolyline, 1, Len(codecPolyline) - 1)
  /\ UNCHANGED <<points, codecCoordinates, codecIndex, codecPc, decoder>>

\* decodePolyline(polyline, 6) runs and returns; it has no throw statement.
Decode ==
  /\ codecPc = "encoded"
  /\ codecCoordinates' = decodePolyline(codecPolyline, 6)
  /\ codecIndex' = IF Len(codecPolyline) = 0 THEN 0 ELSE DecodeEnd(codecPolyline, 0)
  /\ codecPc' = "decoded"
  /\ UNCHANGED <<points, codecPolyline, decoder>>

\* The same call followed step by step.  It is entered: an empty string
\* returns at once (if (!polyline) return []), any other reaches the test of
\* the outer loop with the locals at their initial values.
DecoderCall ==
  /\ codecPc = "decoded"
  /\ decoder.pc = "idle"
  /\ decoder' = [DecoderIdle EXCEPT !.pc = IF Len(codecPolyline) = 0 THEN "done"
                                          ELSE "while"]
  /\ UNCHANGED <<points, codecPolyline, codecCoordinates, codecIndex, codecPc>>

\* while (index < polyline.length): the body starts with shift and result at
\* 0, or the loop ends and coordinates is returned.
DecoderWhile ==
  /\ decoder.pc = "while"
  /\ decoder' = IF decoder.index < Len(codecPolyline)
                  THEN [decoder EXCEPT !.pc = "lat", !.shift = 0, !.result = 0,
                                       !.start = decoder.index]
                  ELSE [decoder EXCEPT !.pc = "done"]
  /\ UNCHANGED <<points, codecPolyline, codecCoordinates, codecIndex, codecPc>>

\* A variant of ChunkContinues for which the value read past the end of the
\* string continues the loop.
ChunkContinues_PastEnd(byte) == byte = NaN \/ byte >= 32

\* while (byte >= 0x20), the condition of both do-while loops: false for NaN,
\* the value read past the end of the string.
ChunkContinues(byte) == byte # NaN /\ byte >= 32

\* One pass through the body of a do-while loop: a character is read at
\* index, index moves on, its low 5 bits enter result.  When the loop ends,
\* the latitude loop adds its delta to lat and hands over to the longitude
\* loop; the longitude loop adds its delta to lng and pushes the point.
DecoderChunk ==
  /\ decoder.pc \in {"lat", "lng"}
  /\ \E byte \in {ByteAt(codecPolyline, decoder.index)} :
     \E chunk \in {Shl(And1f(byte), decoder.shift)} :
     \E result \in {BitOr(decoder.result, chunk)} :
     \E delta \in {ZigZag(result)} :
       LET read == [decoder EXCEPT !.index = decoder.index + 1]
       IN decoder' =
            IF ChunkContinues(byte)
              THEN [read EXCEPT !.result = result, !.shift = decoder.shift + 5]
            ELSE IF decoder.pc = "lat"
              THEN [read EXCEPT !.lat = decoder.lat + delta,
                                !.shift = 0, !.result = 0, !.pc = "lng"]
            ELSE [read EXCEPT !.lng = decoder.lng + delta,
                              !.shift = 0, !.result = 0, !.pc = "while",
                              !.coordinates =
                                 Append(decoder.coordinates,
                                        <<decoder.lng + delta, decoder.lat>>)]
  /\ UNCHANGED <<points, codecPolyline, codecCoordinates, codecIndex, codecPc>>

\* A step of the call that is followed step by step.
DecoderStep ==
  (DecoderCall \/ DecoderWhile \/ DecoderChunk) /\ UNCHANGED <<hookVars, viewVars>>

NextCodec ==
  \/ Encode /\ UNCHANGED <<hookVars, viewVars>>
  \/ Truncate /\ UNCHANGED <<hookVars, viewVars>>
  \/ Decode /\ UNCHANGED <<hookVars, viewVars>>
  \/ DecoderCall /\ UNCHANGED <<hookVars, viewVars>>
  \/ DecoderWhile /\ UNCHANGED <<hookVars, viewVars>>
  \/ DecoderChunk /\ UNCHANGED <<hookVars, viewVars>>

SpecCodec == InitCodec /\ [][NextCodec]_vars

\* C24: decodePolyline of the empty string returns an empty sequence of
\* points, without an error and without reading a character.
C24_EmptyStringDecodesEmpty ==
  (codecPc \in {"decoded", "failed"} /\ codecPolyline = <<>>) =>
    /\ codecPc = "decoded"
    /\ codecCoordinates = <<>>
    /\ codecIndex = 0

\* The empty string was decoded.
C24_Witness ==
  /\ codecPc = "decoded"
  /\ codecPolyline = <<>>
  /\ codecCoordinates = <<>>

\* The string ends inside a coordinate value or inside a point: its last
\* character has the continuation bit 0x20 set, or it holds an odd number of
\* complete values, a latitude delta without its longitude delta.
Truncated(str) ==
  /\ Len(str) > 0
  /\ \/ str[Len(str)] - 63 >= 32
     \/ Cardinality({i \in 1..Len(str) : str[i] - 63 < 32}) % 2 = 1

\* C25: for a truncated input decodePolyline reads no index at or beyond the
\* length of the string and fails instead of returning points.
C25_TruncatedInputFails ==
  (codecPc \in {"decoded", "failed"} /\ Truncated(codecPolyline)) =>
    /\ codecPc = "failed"
    /\ codecIndex <= Len(codecPolyline)

\* C26: at precision 6 decodePolyline inverts the encoder: decoding the
\* encoding of a sequence of points yields the same points, as many and in
\* the same order, each as <<longitude, latitude>>.
C26_DecodeInvertsEncode ==
  (codecPc = "decoded" /\ codecPolyline = encodePolyline(points)) =>
    /\ Len(codecCoordinates) = Len(points)
    /\ \A i \in 1..Len(points) : /\ codecCoordinates[i][1] = points[i][1]
                                 /\ codecCoordinates[i][2] = points[i][2]
    /\ codecIndex = Len(codecPolyline)

\* Two different points, the second south-west of the first, were encoded
\* and decoded.
C26_Witness ==
  /\ codecPc = "decoded"
  /\ codecPolyline = encodePolyline(points)
  /\ Len(points) = 2
  /\ points[1] = <<180000000, 38500000>>
  /\ points[2] = <<-180000000, -8>>
  /\ codecCoordinates = points

\* C27: pressing Get Directions while no current location has been acquired
\* makes the system acquire the location by itself: after the press the
\* acquisition is under way.
C27_OneClickDirections ==
  (last.op = "getDirections" /\ currentLocation = NullLocation) => isLocating

\* The fix at latitude lat is off the route of state st: farther than 20 m from
\* every point of the shape of the current leg.
OffRoute(st, lat) ==
  /\ st.currentRoute # NullRoute
  /\ Has(st.currentRoute.trip.legs, st.currentLegIndex)
  /\ Len(At(st.currentRoute.trip.legs, st.currentLegIndex).shape) > 0
  /\ LET pts == DecodedShape[At(st.currentRoute.trip.legs, st.currentLegIndex).shape]
     IN \A i \in 1..Len(pts) : calculateDistance(lat, 0, pts[i][2], pts[i][1]) > 20

\* C28: with the option recalculateOnDeviation set, a fix off the route
\* during navigation issues a new route request.
C28_RecalculatesOffRoute ==
  [][(/\ last'.op = "fix"
      /\ env.recalculateOnDeviation
      /\ navigationState.isNavigating
      /\ OffRoute(navigationState, last'.lat)) =>
       /\ issued' = issued + 1
       /\ requests' # requests]_vars

\* C29: currentLegIndex is 0 in every reachable state, also when the route has
\* a second leg and the last maneuver of the first has been reached.
C29_LegCursorStaysZero == navigationState.currentLegIndex = 0

\* A session on the route of two legs stands on the last maneuver of the
\* first leg, below the threshold, and has processed a fix there.
C29_Witness ==
  /\ last.op = "fix"
  /\ last.idx = 1
  /\ navigationState.isNavigating
  /\ navigationState.currentRoute = RouteB
  /\ Len(navigationState.currentRoute.trip.legs) = 2
  /\ navigationState.currentManeuverIndex = 1
  /\ navigationState.distanceToNextManeuver < 8
  /\ navigationState.currentLegIndex = 0

\* C30: when voice is disabled or speech synthesis is absent, no utterance is
\* ever in flight and the gate speakingRef is never taken, while the cursor
\* advances as it does with speech: by one, on a distance below the
\* threshold, with the maneuver handed to speakInstruction.
C30_SilentWithoutSpeech ==
  (~env.voiceEnabled \/ ~env.speechSynthesis) =>
    /\ utterances = <<>>
    /\ ~speakingRef
    /\ (last.op = "fix" /\ navigationState.currentManeuverIndex # last.idx) =>
         /\ navigationState.currentManeuverIndex = last.idx + 1
         /\ navigationState.distanceToNextManeuver < 8
         /\ spoken # <<>>
         /\ spoken[Len(spoken)] = navigationState.currentManeuverIndex

\* Without speech a fix has advanced the cursor a second time in a session:
\* both maneuvers were handed to speakInstruction and nothing was spoken.
C30_Witness ==
  /\ ~env.voiceEnabled \/ ~env.speechSynthesis
  /\ last.op = "fix"
  /\ last.idx = 1
  /\ navigationState.isNavigating
  /\ navigationState.currentManeuverIndex = 2
  /\ spoken = <<1, 2>>
  /\ utterances = <<>>
  /\ ~speakingRef

\* ------------------------------------------------------------------ C31..C39
\* C31: while navigating on a leg with at least one maneuver, the cursor
\* names a maneuver of that leg: 0 <= currentManeuverIndex < the number of
\* maneuvers of the leg at currentLegIndex of currentRoute.
C31_CursorWithinLeg ==
  (navigationState.isNavigating /\ Len(LegManeuvers(navigationState)) > 0) =>
    /\ 0 <= navigationState.currentManeuverIndex
    /\ navigationState.currentManeuverIndex < Len(LegManeuvers(navigationState))

\* In state st the handler of watcher w resolves the end point of the
\* maneuver at the cursor: the maneuver exists and its end_shape_index names a
\* point of the leg's point sequence as w decoded it.
EndPointResolved(st, w) ==
  /\ Has(HandlerManeuvers(st, w), st.currentManeuverIndex)
  /\ Has(w.decodedLegShapes, st.currentLegIndex)
  /\ Has(At(w.decodedLegShapes, st.currentLegIndex),
         At(HandlerManeuvers(st, w), st.currentManeuverIndex).end_shape_index)

\* C32: a fix that resolves the end point of the current maneuver reads the
\* maneuver list of the route whose shapes its watcher decoded: the decoded
\* shapes are never combined with the maneuvers of another route.
C32_ShapesOfSameRoute ==
  [][\A w \in watchers :
       (last'.op = "fix" /\ last'.id = w.id /\ EndPointResolved(navigationState, w)) =>
         HandlerRoute(navigationState, w) = w.route]_vars

\* C33: a fix for which the end point of the current maneuver cannot be
\* resolved (no such point in the decoded shape, or no decoded points) leaves
\* the cursor where it is, also when it is the first fix of a session and the
\* distance held is the initial 0 or one retained from the previous maneuver.
C33_UnresolvedNeverAdvances ==
  [][\A w \in watchers :
       (last'.op = "fix" /\ last'.id = w.id /\ ~EndPointResolved(navigationState, w)) =>
         navigationState'.currentManeuverIndex = navigationState.currentManeuverIndex]_vars

\* C34: in every state, isNavigating true implies that currentRoute is not
\* null, whatever the order of requests, responses, fixes and stops.
C34_NavigatingHasRoute ==
  navigationState.isNavigating => navigationState.currentRoute # NullRoute

\* The session navigates on a route and the response of a calculateRoute
\* called during the session has just failed: the error is stored and the
\* route is still there.
C34_Witness ==
  /\ navigationState.isNavigating
  /\ navigationState.currentRoute # NullRoute
  /\ last.op = "response"
  /\ last.kind = "calc"
  /\ Failed(last.resp)
  /\ navigationState.error # NullError
  /\ issued = 2

\* C35: isLoading is true in exactly the states in which at least one route
\* request is in flight.
C35_LoadingIffInFlight ==
  navigationState.isLoading <=> (requests # {})

\* ------------------------------------------------------------------ liveness
\* The fetch of request id resolves or rejects.
RespondTo(id) ==
  /\ \E r \in requests : r.id = id /\ \E resp \in Responses : RouteResponse(r, resp)
  /\ UNCHANGED <<viewVars, codecVars>>

\* The utterance in flight fires onend or onerror.
UtteranceFires == UtteranceEnd /\ UNCHANGED <<viewVars, codecVars>>

\* The latitudes of the fixes that move the cursor along RouteA: the end
\* point of maneuver 0 and a point 5 m before the end point of maneuver 1.
LiveFixLats == {0, 45}

\* The steps of the hook that issue and answer requests, move the cursor and
\* speak, with the fixes at LiveFixLats.
NextLive ==
  \/ StartNavigation /\ UNCHANGED <<viewVars, codecVars>>
  \/ CalculateRoute /\ UNCHANGED <<viewVars, codecVars>>
  \/ \E id \in 1..MaxRequests : RespondTo(id)
  \/ /\ \E w \in watchers : \E lat \in LiveFixLats : Fix(w, lat)
     /\ UNCHANGED <<viewVars, codecVars>>
  \/ StopNavigation /\ UNCHANGED <<viewVars, codecVars>>
  \/ SpeakButton /\ UNCHANGED <<viewVars, codecVars>>
  \/ UtteranceFires

\* The hook under a platform that answers: every fetch eventually resolves
\* or rejects, and every utterance eventually fires onend or onerror.
SpecLive ==
  /\ Init
  /\ [][NextLive]_vars
  /\ \A id \in 1..MaxRequests : WF_vars(RespondTo(id))
  /\ WF_vars(UtteranceFires)

\* The call of calculateRoute that issued request id has returned: its
\* updater cleared isLoading and stored the route of the response or the
\* message of the failure, and the call resolved to the route or to null
\* (to nothing when startNavigation made it).
Answered(id) ==
  /\ last.op = "response"
  /\ last.id = id
  /\ ~navigationState.isLoading
  /\ IF Failed(last.resp)
       THEN navigationState.error = ErrorOf(last.resp) /\ navigationState.error # NullError
       ELSE navigationState.currentRoute = last.resp.data
  /\ last.ret = IF last.kind = "calc" THEN RouteOf(last.resp) ELSE Undefined

\* C36: every route request eventually clears the loading flag: when the
\* fetch resolves or rejects, the call reaches a state with isLoading false
\* and with the route of its response or an error message stored, and the
\* call itself resolves.
C36_RequestEventuallyAnswered ==
  \A id \in 1..MaxRequests : (\E r \in requests : r.id = id) ~> Answered(id)

\* The second of two overlapping requests was answered with a failure while
\* the first is still in flight: the flag is cleared and the message stored.
C36_Witness ==
  /\ Answered(2)
  /\ Failed(last.resp)
  /\ \E r \in requests : r.id = 1

\* C38: the gate speakingRef is taken only while an utterance started by
\* speakInstruction has neither ended nor failed, and it is always released
\* again: a taken gate leads to a free gate, also when stopNavigation and a
\* new session come in between.
C38_GateReleased ==
  /\ [](speakingRef <=> (utterances # <<>>))
  /\ (speakingRef ~> ~speakingRef)

\* In the second session of the hook the gate, released after an earlier
\* utterance, is taken again by the announcement of maneuver 1.
C38_Witness ==
  /\ last.op = "fix"
  /\ issued = 2
  /\ requests = {}
  /\ stopped = FALSE
  /\ nextWatchId = FirstWatchId + 2
  /\ navigationState.isNavigating
  /\ spoken = <<1>>
  /\ speakingRef
  /\ utterances = << <<"Turn", " ", "left">> >>

\* C37: stopNavigation clears the stored watcher for every watch id the
\* platform may return, 0 included: after a stop watchIdRef is null and the
\* watcher whose id was stored is no longer live.
C37_StopClearsEveryId ==
  [][last'.op = "stop" =>
       /\ watchIdRef' = NullWatchId
       /\ \A w \in watchers : w.id = watchIdRef => w \notin watchers']_vars

\* The codec under a scheduler that lets a call that was entered run on.
SpecCodecLive == SpecCodec /\ WF_vars(DecoderStep)

\* C39: decodePolyline terminates on every input string: a call that was
\* entered returns; every iteration of the outer loop consumes at least two
\* character positions; a do-while loop that reads at or past the end of the
\* string ends with that read; and the call returns what decodePolyline
\* returns, with index where its loop left it.
C39_DecoderTerminates ==
  /\ (decoder.pc # "idle") ~> (decoder.pc = "done")
  /\ [][/\ (decoder.pc = "lng" /\ decoder'.pc = "while") =>
             decoder'.index >= decoder.start + 2
        /\ (/\ decoder.pc \in {"lat", "lng"}
            /\ decoder.index >= Len(codecPolyline)
            /\ decoder' # decoder) => decoder'.pc # decoder.pc]_vars
  /\ [](decoder.pc = "done" =>
          /\ decoder.coordinates = codecCoordinates
          /\ decoder.index = codecIndex)

\* The call on a string that ends inside a value has returned: the latitude
\* loop ran off the end of the string, the longitude loop read one position
\* further, and a point was pushed.
C39_Witness ==
  /\ decoder.pc = "done"
  /\ codecPolyline = <<95>>
  /\ decoder.index = 3
  /\ Len(decoder.coordinates) = 1

============================================================================
